---- MODULE Spec2Model ----
(***************************************************************************)
(* Incremental extraction-and-reconciliation pipeline of                   *)
(* extraer_comentarios.py: the orchestrator run_extraction, the merger     *)
(* merge_comments with the identity hasher, and the paginated extraction   *)
(* controller.  A DataFrame is a record [status_col, rows]: rows is the    *)
(* sequence of its rows and status_col tells whether the frame has the     *)
(* column extraction_status.  MD5 is modelled as injective: a fingerprint  *)
(* is the tuple of the fields that are hashed.                             *)
(***************************************************************************)
EXTENDS Integers, Sequences, FiniteSets, TLC

\* ------------------------------------------------------------------------
\* Bounds of the model
\* ------------------------------------------------------------------------
\* the number of URLs listed in urls.txt, summed over all the runs
MaxListed == 3
\* the largest target_count of a paginated extraction, in batch ceilings
MaxBatches == 3
\* the number of items of a dataset whose items are followed one by one
MaxBatchItems == 2

\* ------------------------------------------------------------------------
\* Values
\* ------------------------------------------------------------------------
NA == "<NA>"
NaT == [k |-> "nan"]
Epoch(n) == [k |-> "int", v |-> n]

Url(d, p, q) == [doms |-> d, path |-> p, query |-> q]
UrlA == Url({"facebook.com"}, "p1", "")
UrlAq == Url({"facebook.com"}, "p1", "utm=1")
UrlB == Url({"instagram.com"}, "p2", "")
UrlZ == Url({"example.org"}, "p3", "")
InputUrls == {UrlA, UrlAq, UrlB, UrlZ}

RECURSIVE SeqsUpTo(_, _)
SeqsUpTo(S, n) ==
    IF n = 0 THEN {<<>>}
    ELSE LET shorter == SeqsUpTo(S, n - 1)
         IN shorter \cup {Append(s, x) : s \in {t \in shorter : Len(t) = n - 1}, x \in S}

Range(s) == {s[i] : i \in 1..Len(s)}
Count(s, P(_)) == Cardinality({i \in 1..Len(s) : P(s[i])})

\* ------------------------------------------------------------------------
\* Platform Resolver
\* ------------------------------------------------------------------------
\* str(url).lower(), on the domain names a URL holds
LowerDomain(d) ==
    CASE d = "FACEBOOK.COM" -> "facebook.com"
      [] d = "Instagram.com" -> "instagram.com"
      [] d = "TikTok.com" -> "tiktok.com"
      [] OTHER -> d

detect_platform_instagram_first(url) ==
    LET doms == {LowerDomain(d) : d \in url.doms}
    IN IF "instagram.com" \in doms THEN "Instagram"
       ELSE IF doms \cap {"facebook.com", "fb.com", "fb.me"} # {} THEN "Facebook"
       ELSE IF "tiktok.com" \in doms \/ "vt.tiktok.com" \in doms THEN "TikTok"
       ELSE "None"

\* url.doms is the set of the domain names that are substrings of the URL
detect_platform(url) ==
    LET doms == {LowerDomain(d) : d \in url.doms}
    IN IF doms \cap {"facebook.com", "fb.com", "fb.me"} # {} THEN "Facebook"
       ELSE IF "instagram.com" \in doms THEN "Instagram"
       ELSE IF "tiktok.com" \in doms \/ "vt.tiktok.com" \in doms THEN "TikTok"
       ELSE "None"

clean_url(url) == [url EXCEPT !.query = ""]

\* ------------------------------------------------------------------------
\* Rows
\* ------------------------------------------------------------------------
CommentRow(url, platform, item, post_number) ==
    [post_url |-> url, post_number |-> post_number, platform |-> platform,
     comment_text |-> item.text, created_time |-> item.time,
     extraction_status |-> "NaN"]

create_post_registry_entry(url, platform, post_number) ==
    [post_url |-> url, post_number |-> post_number, platform |-> platform,
     comment_text |-> NA, created_time |-> NaT,
     extraction_status |-> "NO_COMMENTS"]

create_failed_registry_entry(url, platform, post_number) ==
    [post_url |-> url, post_number |-> post_number, platform |-> platform,
     comment_text |-> NA, created_time |-> NaT,
     extraction_status |-> "FAILED"]

IsComment(r) == r.comment_text # NA
IsPlaceholder(r) == r.comment_text = NA

EmptyFrame == [status_col |-> FALSE, rows |-> <<>>]
IsEmpty(df) == df.rows = <<>>

\* ------------------------------------------------------------------------
\* Identity Hasher
\* ------------------------------------------------------------------------
Lower(p) ==
    CASE p = "Facebook" -> "facebook"
      [] p = "Instagram" -> "instagram"
      [] p = "TikTok" -> "tiktok"
      [] OTHER -> p

\* str(x).strip()
Strip(text) ==
    CASE text \in {"", " ", "  "} -> ""
      [] text = " nice " -> "nice"
      [] OTHER -> text

\* A timestamp is NaT (NaN, None), a number Epoch(n) or Float(n, f), or a
\* string StrTs(s), s being the sequence of its characters; a string that is
\* not made of digits is held as one token.  The value of the function is a
\* string in the same form.
Float(n, f) == [k |-> "float", v |-> n, frac |-> f]
StrTs(s) == [k |-> "str", s |-> s]

Digits == {"0", "1", "2", "3", "4", "5", "6", "7", "8", "9"}
Digit(d) ==
    CASE d = 0 -> "0" [] d = 1 -> "1" [] d = 2 -> "2" [] d = 3 -> "3" [] d = 4 -> "4"
      [] d = 5 -> "5" [] d = 6 -> "6" [] d = 7 -> "7" [] d = 8 -> "8" [] d = 9 -> "9"

\* str(n) of an integer n >= 0
RECURSIVE Str(_)
Str(n) == IF n < 10 THEN <<Digit(n)>> ELSE Append(Str(n \div 10), Digit(n % 10))

\* str.isdigit()
isdigit(s) == s # <<>> /\ \A i \in 1..Len(s) : s[i] \in Digits

\* pd.to_datetime(s, errors='coerce') of a string that is not made of digits:
\* the time of a date-time string, NaT for any other string
to_datetime(s) ==
    IF s = <<"1970-01-01 00:16:40">> THEN Epoch(1000) ELSE NaT

normalize_timestamp_for_hash(t) ==
    IF t.k = "nan" THEN <<"UNKNOWN">>
    ELSE IF t.k = "str" /\ t.s = <<>> THEN <<"UNKNOWN">>
    ELSE IF t.k \in {"int", "float"} THEN Str(t.v)
    ELSE IF isdigit(t.s) THEN t.s
    ELSE IF to_datetime(t.s) # NaT THEN Str(to_datetime(t.s).v)
    ELSE t.s

StatusStr(s) == IF s = "NaN" THEN "nan" ELSE s

create_unique_comment_hash_with_author(row) ==
    IF row.comment_text = NA \/ Strip(row.comment_text) = ""
    THEN [kind |-> "REGISTRY", platform |-> Lower(row.platform),
          status |-> StatusStr(row.extraction_status), url |-> row.post_url]
    ELSE [kind |-> "MD5", platform |-> Lower(row.platform), url |-> row.post_url,
          text |-> Strip(row.comment_text),
          time |-> normalize_timestamp_for_hash(row.created_time),
          author |-> row.author_name]

create_unique_comment_hash_by_post(row) ==
    [kind |-> "MD5", platform |-> Lower(row.platform), url |-> row.post_url]

\* the value is the string that is returned for a placeholder and the string
\* that is digested for a comment; kind tells the two forms apart, the
\* first being REGISTRY_... and the second 32 hexadecimal digits
create_unique_comment_hash(row) ==
    IF row.comment_text = NA \/ Strip(row.comment_text) = ""
    THEN [kind |-> "REGISTRY", platform |-> Lower(row.platform),
          status |-> StatusStr(row.extraction_status), url |-> row.post_url]
    ELSE [kind |-> "MD5", platform |-> Lower(row.platform), url |-> row.post_url,
          text |-> Strip(row.comment_text),
          time |-> normalize_timestamp_for_hash(row.created_time)]

\* ------------------------------------------------------------------------
\* Reconciliation Merger
\* ------------------------------------------------------------------------
NormalizePlatform(p) ==
    CASE Lower(p) = "facebook" -> "Facebook"
      [] Lower(p) = "instagram" -> "Instagram"
      [] Lower(p) = "tiktok" -> "TikTok"
      [] OTHER -> p

normalize_existing_data(df) ==
    IF IsEmpty(df) THEN df
    ELSE [status_col |-> TRUE,
          rows |-> [i \in 1..Len(df.rows) |->
                      [df.rows[i] EXCEPT
                         !.platform = NormalizePlatform(@),
                         !.comment_text = IF @ = "" THEN NA ELSE @,
                         !.extraction_status =
                            IF df.status_col THEN @
                            ELSE IF df.rows[i].comment_text = NA
                                 THEN "NO_COMMENTS" ELSE "NaN"]]]

Hashes(rows) == {create_unique_comment_hash(rows[i]) : i \in 1..Len(rows)}

TrulyNewUnfiltered(existing_hashes, new_rows) == new_rows

TrulyNewByUrl(existing_hashes, new_rows) ==
    SelectSeq(new_rows, LAMBDA r : r.post_url \notin {h.url : h \in existing_hashes})

TrulyNew(existing_hashes, new_rows) ==
    SelectSeq(new_rows, LAMBDA r : create_unique_comment_hash(r) \notin existing_hashes)

UrlsWithNewComments(truly_new) ==
    {truly_new[i].post_url : i \in {j \in 1..Len(truly_new) : IsComment(truly_new[j])}}

MaskToRemoveFailed(r, urls_with_new_comments) ==
    /\ r.comment_text = NA
    /\ r.post_url \in urls_with_new_comments
    /\ r.extraction_status = "FAILED"

MaskToRemoveAllOfPost(r, urls_with_new_comments) ==
    r.post_url \in urls_with_new_comments

MaskToRemove(r, urls_with_new_comments) ==
    /\ r.comment_text = NA
    /\ r.post_url \in urls_with_new_comments
    /\ r.extraction_status = "NO_COMMENTS"

merge_comments(df_ex, df_new) ==
    IF IsEmpty(df_ex) THEN df_new
    ELSE IF IsEmpty(df_new) THEN df_ex
    ELSE LET ex == normalize_existing_data(df_ex)
             truly_new == TrulyNew(Hashes(ex.rows), df_new.rows)
             urls == UrlsWithNewComments(truly_new)
             kept == SelectSeq(ex.rows, LAMBDA r : ~MaskToRemove(r, urls))
         IN [status_col |-> TRUE, rows |-> kept \o truly_new]

\* sort_values(['post_number', 'created_time_processed'], ascending=[True, False],
\* na_position='last'), stable
SortsBefore(a, b) ==
    \/ a.post_number < b.post_number
    \/ /\ a.post_number = b.post_number
       /\ a.created_time.k = "int"
       /\ b.created_time.k = "nan" \/ a.created_time.v > b.created_time.v

RECURSIVE InsertRow(_, _)
InsertRow(s, r) ==
    IF s = <<>> THEN <<r>>
    ELSE IF SortsBefore(r, s[Len(s)])
         THEN Append(InsertRow(SubSeq(s, 1, Len(s) - 1), r), s[Len(s)])
         ELSE Append(s, r)

RECURSIVE SortRows(_)
SortRows(s) ==
    IF s = <<>> THEN <<>>
    ELSE InsertRow(SortRows(SubSeq(s, 1, Len(s) - 1)), s[Len(s)])

\* ------------------------------------------------------------------------
\* The persisted store and its loader
\* ------------------------------------------------------------------------
load_existing_comments(file, read_ok) ==
    IF file.rows = <<>> THEN EmptyFrame
    ELSE IF read_ok THEN normalize_existing_data(file)
    ELSE EmptyFrame

\* Files a first run can find: none, or a file written before the column
\* extraction_status existed, holding a registry row of a post without comments.
LegacyFile ==
    [status_col |-> FALSE,
     rows |-> << [post_url |-> UrlA, post_number |-> 3, platform |-> "Facebook",
                  comment_text |-> NA, created_time |-> NaT,
                  extraction_status |-> "NaN"] >>]
InitialFiles == {EmptyFrame, LegacyFile}

\* ------------------------------------------------------------------------
\* The external service: what one extraction of a post can come back with
\* ------------------------------------------------------------------------
ItemC == [text |-> "great product", time |-> Epoch(1000)]
ItemD == [text |-> "nice", time |-> Epoch(2000)]
ScrapeResults == {<<>>, <<ItemC>>, <<ItemC, ItemD>>}

\* ------------------------------------------------------------------------
\* Orchestrator
\* ------------------------------------------------------------------------
VARIABLES store, pc, listed, valid_urls, df_existing, url_to_post_number,
          idx, all_comments, failed_urls, df_combined

\* Paginated Extraction Controller: one call of scrape_<platform>_comments
VARIABLES pg_pc, pg_platform, max_comments, batch_num, all_items, jobs, run_status

\* Retry Controller: one call of scrape_with_retry.  outcomes is what each
\* invocation of the extraction function ended with and sleeps the arguments
\* of time.sleep, both for the URL being processed; rt_result is the local
\* result; the counters of main
\* comments and of replies are left out of extraction_stats
VARIABLES rt_pc, max_retries, attempt, outcomes, sleeps, rt_result, valid_comments,
          extraction_stats

\* Job Poller: one call of _wait_for_run_finish.  elapsed is
\* time.time() - start_time, job_status the status of the run at the service,
\* slept the seconds spent in time.sleep
VARIABLES poll_pc, elapsed, job_status, polls, slept, returned

\* the end of a run: what save_to_excel returned and the last thing the run
\* logged about its outcome
VARIABLES save_returned, run_log

\* detect_platform and create_unique_comment_hash applied to given arguments
VARIABLES fn_pc, url_in, platform_out, row_a, row_b, hash_a, hash_b

\* the deduplication inside the loop of a paginated extraction: the set
\* seen_comment_hashes, the list all_items and the counter duplicates_in_batch
\* of the last batch
VARIABLES seen_comment_hashes, all_items_list, duplicates_in_batch

\* what the last job was asked for (maxComments, resultsLimit,
\* maxCommentsPerPost), len(batch_items) of its dataset, and the last thing
\* the pipeline did with the external service: a job submission or a time.sleep
VARIABLES results_limit, raw_items, last_event

run_vars == <<store, pc, listed, valid_urls, df_existing, url_to_post_number,
              idx, all_comments, failed_urls, df_combined>>
pg_vars == <<pg_pc, pg_platform, max_comments, batch_num, all_items, jobs, run_status>>
rt_local == <<rt_pc, max_retries, attempt, outcomes, sleeps, rt_result, valid_comments>>
rt_vars == <<rt_local, extraction_stats>>
poll_vars == <<poll_pc, elapsed, job_status, polls, slept, returned>>
end_vars == <<save_returned, run_log>>
fn_vars == <<fn_pc, url_in, platform_out, row_a, row_b, hash_a, hash_b>>
dd_vars == <<seen_comment_hashes, all_items_list, duplicates_in_batch>>
tm_vars == <<results_limit, raw_items, last_event>>
vars == <<run_vars, pg_vars, rt_vars, poll_vars, end_vars, fn_vars, dd_vars, tm_vars>>

\* settings.get('max_retries', 3)
DefaultMaxRetries == 3
\* settings.get('pause_between_urls_min', 30), settings.get('pause_between_urls_max', 60)
pause_min == 30
pause_max == 60
\* random.uniform(pause_min, pause_max), at its ends
UrlPauses == {pause_min, pause_max}

url_pause_never(i, n) == FALSE

\* if not solo_primer_post and idx < len(valid_urls)
url_pause_due(i, n) == i < n

\* SocialMediaScraper.__init__
ZeroStats ==
    [total_attempts |-> 0, successful |-> 0, failed |-> 0, no_comments |-> 0,
     invalid_comments |-> 0]

RtIdle ==
    /\ rt_pc = "idle"
    /\ max_retries = DefaultMaxRetries
    /\ attempt = 0
    /\ outcomes = <<>>
    /\ sleeps = <<>>
    /\ rt_result = <<>>
    /\ valid_comments = <<>>
    /\ extraction_stats = ZeroStats

EndIdle ==
    /\ save_returned = "NotRun"
    /\ run_log = "NotRun"

FnIdle ==
    /\ fn_pc = "idle"
    /\ url_in = Url({}, "", "")
    /\ platform_out = "NotRun"
    /\ row_a = <<>>
    /\ row_b = <<>>
    /\ hash_a = "NotRun"
    /\ hash_b = "NotRun"

DdIdle ==
    /\ seen_comment_hashes = {}
    /\ all_items_list = <<>>
    /\ duplicates_in_batch = 0

\* the events of last_event: nothing yet, client.actor(...).call(run_input),
\* and time.sleep(secs) between two batches, before a retry, between two URLs
NoEvent == [ev |-> "none", secs |-> 0]
JobSubmitted == [ev |-> "job", secs |-> 0]
Slept(why, secs) == [ev |-> why, secs |-> secs]

TmIdle ==
    /\ results_limit = 0
    /\ raw_items = 0
    /\ last_event = NoEvent

PollIdle ==
    /\ poll_pc = "idle"
    /\ elapsed = 0
    /\ job_status = "READY"
    /\ polls = 0
    /\ slept = 0
    /\ returned = "NotRun"

NoMap == [u \in {} |-> 0]

RunIdle ==
    /\ pc = "idle"
    /\ listed = 0
    /\ valid_urls = <<>>
    /\ df_existing = EmptyFrame
    /\ url_to_post_number = NoMap
    /\ idx = 0
    /\ all_comments = <<>>
    /\ failed_urls = <<>>
    /\ df_combined = EmptyFrame

PgIdle ==
    /\ pg_pc = "idle"
    /\ pg_platform = "None"
    /\ max_comments = 0
    /\ batch_num = 0
    /\ all_items = 0
    /\ jobs = 0
    /\ run_status = "NotRun"

Init ==
    /\ store \in InitialFiles
    /\ RunIdle
    /\ PgIdle
    /\ RtIdle
    /\ PollIdle
    /\ EndIdle
    /\ FnIdle
    /\ DdIdle
    /\ TmIdle

\* mode().iloc[0]: the most frequent value, the smallest one among ties
Mode(nums) ==
    LET vals == Range(nums)
        cnt(v) == Cardinality({i \in 1..Len(nums) : nums[i] = v})
        best == {v \in vals : \A w \in vals : cnt(w) <= cnt(v)}
    IN CHOOSE v \in best : \A w \in best : v <= w

NumbersOf(df, u) ==
    LET sel == SelectSeq(df.rows, LAMBDA r : r.post_url = u)
    IN [i \in 1..Len(sel) |-> sel[i].post_number]

ExistingNumbers(df) ==
    [u \in {df.rows[i].post_url : i \in 1..Len(df.rows)} |-> Mode(NumbersOf(df, u))]

MaxOf(S) == CHOOSE m \in S : \A x \in S : x <= m

RECURSIVE AssignNumbers(_, _, _)
AssignNumbers(map, next_number, urls) ==
    IF urls = <<>> THEN map
    ELSE IF Head(urls) \in DOMAIN map
         THEN AssignNumbers(map, next_number, Tail(urls))
         ELSE AssignNumbers([u \in DOMAIN map \cup {Head(urls)} |->
                               IF u \in DOMAIN map THEN map[u] ELSE next_number],
                            next_number + 1, Tail(urls))

PostNumbersFromTwo(df, urls) ==
    LET existing == ExistingNumbers(df)
        next_number == IF DOMAIN existing = {} THEN 2
                       ELSE MaxOf({existing[u] : u \in DOMAIN existing}) + 1
    IN AssignNumbers(existing, next_number, urls)

PostNumbers(df, urls) ==
    LET existing == ExistingNumbers(df)
        next_number == IF DOMAIN existing = {} THEN 1
                       ELSE MaxOf({existing[u] : u \in DOMAIN existing}) + 1
    IN AssignNumbers(existing, next_number, urls)

\* run_extraction up to the loop: the URL list, the load of the store (which
\* may raise inside load_existing_comments) and the post numbers
StartRun ==
    /\ pc = "idle"
    /\ \E urls \in SeqsUpTo(InputUrls, MaxListed - listed) \ {<<>>}, read_ok \in BOOLEAN :
          /\ (store.rows = <<>>) => read_ok
          /\ listed' = listed + Len(urls)
          /\ valid_urls' = urls
          /\ df_existing' = load_existing_comments(store, read_ok)
          /\ url_to_post_number' = PostNumbers(df_existing', urls)
    /\ idx' = 1
    /\ all_comments' = <<>>
    /\ failed_urls' = <<>>
    /\ extraction_stats' = ZeroStats
    /\ save_returned' = "NotRun"
    /\ run_log' = "NotRun"
    /\ pc' = "urls"
    /\ last_event' = NoEvent
    /\ UNCHANGED <<store, df_combined, pg_vars, rt_local, poll_vars, fn_vars, dd_vars,
                   results_limit, raw_items>>

\* one iteration of the loop over valid_urls (solo_primer_post has its default,
\* False); result is what the extraction function came back with on its
\* attempts, the empty list when no attempt gave a valid comment, in which case
\* scrape_with_retry appends the URL to failed_urls
ProcessUrl ==
    /\ pc = "urls"
    /\ idx <= Len(valid_urls)
    /\ LET url == valid_urls[idx]
           post_number == url_to_post_number[url]
           platform == detect_platform(url)
       IN IF platform = "None"
          THEN UNCHANGED <<all_comments, failed_urls, extraction_stats, last_event>>
          ELSE \E result \in ScrapeResults :
                 LET comments == [i \in 1..Len(result) |->
                                    CommentRow(url, platform, result[i], post_number)]
                     failed == IF comments = <<>> THEN Append(failed_urls, url)
                               ELSE failed_urls
                 IN /\ failed_urls' = failed
                    /\ extraction_stats' =
                         [extraction_stats EXCEPT
                            !.total_attempts = @ + 1,
                            !.successful = IF comments = <<>> THEN @ ELSE @ + 1,
                            !.failed = IF comments = <<>> THEN @ + 1 ELSE @]
                    /\ all_comments' =
                         IF url \in Range(failed)
                         THEN Append(all_comments,
                                     create_failed_registry_entry(url, platform, post_number))
                         ELSE IF comments = <<>>
                         THEN Append(all_comments,
                                     create_post_registry_entry(url, platform, post_number))
                         ELSE all_comments \o comments
                    /\ IF url_pause_due(idx, Len(valid_urls))
                       THEN \E pausa \in UrlPauses : last_event' = Slept("url", pausa)
                       ELSE last_event' = JobSubmitted
    /\ idx' = idx + 1
    /\ UNCHANGED <<store, pc, listed, valid_urls, df_existing, url_to_post_number,
                   df_combined, pg_vars, rt_local, poll_vars, end_vars, fn_vars, dd_vars,
                   results_limit, raw_items>>

NewFrame(rows) ==
    [status_col |-> \E i \in 1..Len(rows) : IsPlaceholder(rows[i]), rows |-> rows]

\* after the loop: merge, sort
Merge ==
    /\ pc = "urls"
    /\ idx > Len(valid_urls)
    /\ all_comments # <<>>
    /\ LET merged == merge_comments(df_existing, NewFrame(all_comments))
       IN df_combined' = [merged EXCEPT !.rows = SortRows(@)]
    /\ pc' = "merged"
    /\ UNCHANGED <<store, listed, valid_urls, df_existing, url_to_post_number,
                   idx, all_comments, failed_urls, pg_vars, rt_vars, poll_vars, end_vars, fn_vars, dd_vars, tm_vars>>

\* the branch without new data: the loaded store, when it has rows, is saved back
NoNewData ==
    /\ pc = "urls"
    /\ idx > Len(valid_urls)
    /\ all_comments = <<>>
    /\ df_combined' = df_existing
    /\ pc' = "merged"
    /\ UNCHANGED <<store, listed, valid_urls, df_existing, url_to_post_number,
                   idx, all_comments, failed_urls, pg_vars, rt_vars, poll_vars, end_vars, fn_vars, dd_vars, tm_vars>>

\* run_extraction before the URL filter: a missing token or a configuration
\* file that cannot be loaded logs the error and returns; so does an empty
\* list of valid URLs
StartupFailures == {"NoToken", "ConfigFailed", "NoValidUrls"}

AbortAtStartupAfterLoad ==
    /\ pc = "idle"
    /\ \E failure \in StartupFailures : run_log' = failure
    /\ save_returned' = "NotRun"
    /\ df_existing' = load_existing_comments(store, TRUE)
    /\ UNCHANGED <<store, pc, listed, valid_urls, url_to_post_number, idx, all_comments,
                   failed_urls, df_combined, extraction_stats,
                   pg_vars, rt_local, poll_vars, fn_vars, dd_vars, tm_vars>>

AbortAtStartup ==
    /\ pc = "idle"
    /\ \E failure \in StartupFailures : run_log' = failure
    /\ save_returned' = "NotRun"
    /\ UNCHANGED <<run_vars, pg_vars, rt_vars, poll_vars, fn_vars, dd_vars, tm_vars>>

\* save_to_excel(df, filename): the writer opens the target file itself, so a
\* write that raises leaves the file as it was (the open failed), without
\* readable content (it failed after the open), or with the rows already
\* written when the writer is closed; the exception is caught and False returned
SaveOutcomes == {"written", "untouched", "unreadable", "closed_early"}

save_to_excel(df, outcome) ==
    IF outcome = "written" THEN [file |-> df, returned |-> "True"]
    ELSE IF outcome = "untouched" THEN [file |-> store, returned |-> "False"]
    ELSE IF outcome = "unreadable" THEN [file |-> EmptyFrame, returned |-> "False"]
    ELSE [file |-> df, returned |-> "False"]

\* the end of the run: the value save_to_excel returns is not looked at, and
\* the branch with new data logs "File saved" after its statistics
Save ==
    /\ pc = "merged"
    /\ IF all_comments = <<>> /\ IsEmpty(df_existing)
       THEN /\ store' = store
            /\ save_returned' = "NotRun"
       ELSE \E outcome \in SaveOutcomes :
              LET saved == save_to_excel(df_combined, outcome)
              IN /\ store' = saved.file
                 /\ save_returned' = saved.returned
    /\ run_log' = IF all_comments = <<>> THEN "NoNewData" ELSE "FileSaved"
    /\ pc' = "idle"
    /\ valid_urls' = <<>>
    /\ df_existing' = EmptyFrame
    /\ url_to_post_number' = NoMap
    /\ idx' = 0
    /\ all_comments' = <<>>
    /\ failed_urls' = <<>>
    /\ df_combined' = EmptyFrame
    /\ extraction_stats' = ZeroStats
    /\ last_event' = NoEvent
    /\ UNCHANGED <<listed, pg_vars, rt_local, poll_vars, fn_vars, dd_vars,
                   results_limit, raw_items>>

Next == AbortAtStartup \/ StartRun \/ ProcessUrl \/ Merge \/ NoNewData \/ Save

Spec == Init /\ [][Next]_vars

\* the runs that start without a persisted file
InitEmpty == Init /\ store = EmptyFrame
SpecEmpty == InitEmpty /\ [][Next]_vars

\* ------------------------------------------------------------------------
\* Retry Controller (scrape_with_retry) and the orchestrator's loop around it
\* ------------------------------------------------------------------------
\* the number of attempts the settings may ask for
MaxRetries == 3

validate_comment_data_lax(comment) == TRUE

validate_comment_data(comment) ==
    /\ comment.platform # NA /\ Strip(comment.platform) # ""
    /\ comment.post_url # Url({}, "", "")
    /\ comment.comment_text # NA /\ Strip(comment.comment_text) # ""

\* a comment whose text fix_encoding left empty
ItemBlank == [text |-> "", time |-> Epoch(3000)]

\* what one invocation of the extraction function ends with: it raises, or it
\* returns the processed comments of the post
AttemptResults == {<<>>, <<ItemBlank>>, <<ItemC>>, <<ItemBlank, ItemC>>}
AttemptOutcomes ==
    {[raises |-> TRUE, items |-> <<>>]}
        \cup {[raises |-> FALSE, items |-> r] : r \in AttemptResults}

\* the lists of urls.txt of the runs that are followed attempt by attempt
RetryUrlLists == {<<UrlA>>, <<UrlZ>>, <<UrlA, UrlB>>, <<UrlZ, UrlA>>, <<UrlA, UrlA>>}

\* a run on an empty store at the point where the loop over valid_urls starts
InitRetry ==
    /\ store = EmptyFrame
    /\ pc = "urls"
    /\ valid_urls \in RetryUrlLists
    /\ listed = Len(valid_urls)
    /\ df_existing = EmptyFrame
    /\ url_to_post_number = PostNumbers(EmptyFrame, valid_urls)
    /\ idx = 1
    /\ all_comments = <<>>
    /\ failed_urls = <<>>
    /\ df_combined = EmptyFrame
    /\ PgIdle
    /\ PollIdle
    /\ EndIdle
    /\ FnIdle
    /\ DdIdle
    /\ TmIdle
    /\ rt_pc = "idle"
    /\ max_retries \in 0..MaxRetries
    /\ attempt = 0
    /\ outcomes = <<>>
    /\ sleeps = <<>>
    /\ rt_result = <<>>
    /\ valid_comments = <<>>
    /\ extraction_stats = ZeroStats

\* the loop's continue for a URL without a platform
SkipUrl ==
    /\ pc = "urls"
    /\ rt_pc = "idle"
    /\ idx <= Len(valid_urls)
    /\ detect_platform(valid_urls[idx]) = "None"
    /\ idx' = idx + 1
    /\ UNCHANGED <<store, pc, listed, valid_urls, df_existing, url_to_post_number,
                   all_comments, failed_urls, df_combined, pg_vars, rt_vars, poll_vars, end_vars, fn_vars, dd_vars, tm_vars>>

RtCallUncounted ==
    /\ pc = "urls"
    /\ rt_pc = "idle"
    /\ idx <= Len(valid_urls)
    /\ detect_platform(valid_urls[idx]) # "None"
    /\ rt_pc' = "loop"
    /\ attempt' = 0
    /\ outcomes' = <<>>
    /\ sleeps' = <<>>
    /\ rt_result' = <<>>
    /\ valid_comments' = <<>>
    /\ UNCHANGED <<run_vars, pg_vars, poll_vars, end_vars, fn_vars, dd_vars, tm_vars,
                   max_retries, extraction_stats>>

\* the call of scrape_with_retry for the URL of the iteration, up to its loop
RtCall ==
    /\ pc = "urls"
    /\ rt_pc = "idle"
    /\ idx <= Len(valid_urls)
    /\ detect_platform(valid_urls[idx]) # "None"
    /\ rt_pc' = "loop"
    /\ attempt' = 0
    /\ outcomes' = <<>>
    /\ sleeps' = <<>>
    /\ rt_result' = <<>>
    /\ valid_comments' = <<>>
    /\ extraction_stats' = [extraction_stats EXCEPT !.total_attempts = @ + 1]
    /\ UNCHANGED <<run_vars, pg_vars, poll_vars, end_vars, fn_vars, dd_vars, tm_vars, max_retries>>

\* for attempt in range(max_retries)
InRangeInclusive(att, retries) == att <= retries

InRange(att, retries) == att < retries

\* wait_time = (attempt + 1) * 30, slept when attempt < max_retries - 1
BackoffAlways(att, retries) == Append(sleeps, (att + 1) * 30)

Backoff(att, retries) ==
    IF att < retries - 1 THEN Append(sleeps, (att + 1) * 30) ELSE sleeps

\* one iteration of for attempt in range(max_retries), for what the
\* extraction function ended with
RtAttemptWith(outcome) ==
    /\ IF outcome.raises
       THEN /\ outcomes' = Append(outcomes, "raised")
            /\ sleeps' = Backoff(attempt, max_retries)
            /\ attempt' = attempt + 1
            /\ UNCHANGED <<rt_pc, rt_result, valid_comments, extraction_stats>>
       ELSE LET url == valid_urls[idx]
                rows == [i \in 1..Len(outcome.items) |->
                           CommentRow(url, detect_platform(url), outcome.items[i],
                                      url_to_post_number[url])]
                valid == SelectSeq(rows, validate_comment_data)
            IN /\ rt_result' = rows
               /\ IF valid # <<>>
                  THEN /\ extraction_stats' =
                            [extraction_stats EXCEPT
                               !.invalid_comments = @ + Len(rows) - Len(valid),
                               !.successful = @ + 1]
                       /\ valid_comments' = valid
                       /\ outcomes' = Append(outcomes, "valid")
                       /\ rt_pc' = "returned"
                       /\ UNCHANGED <<attempt, sleeps>>
                  ELSE /\ extraction_stats' =
                            [extraction_stats EXCEPT
                               !.invalid_comments = @ + Len(rows)]
                       /\ outcomes' = Append(outcomes, IF rows = <<>> THEN "empty"
                                                       ELSE "invalid")
                       /\ sleeps' = Backoff(attempt, max_retries)
                       /\ attempt' = attempt + 1
                       /\ UNCHANGED <<rt_pc, valid_comments>>
    /\ last_event' = IF sleeps' # sleeps THEN Slept("retry", sleeps'[Len(sleeps')])
                     ELSE JobSubmitted
    /\ UNCHANGED <<run_vars, poll_vars, end_vars, fn_vars, dd_vars, max_retries,
                   results_limit, raw_items>>

\* the same with the extraction function taken as a whole
RtAttempt ==
    /\ rt_pc = "loop"
    /\ InRange(attempt, max_retries)
    /\ \E outcome \in AttemptOutcomes : RtAttemptWith(outcome)
    /\ UNCHANGED pg_vars

\* after the loop: every attempt failed
RtExhaustedUnrecorded ==
    /\ rt_pc = "loop"
    /\ ~InRange(attempt, max_retries)
    /\ valid_comments' = <<>>
    /\ rt_pc' = "returned"
    /\ UNCHANGED <<run_vars, pg_vars, poll_vars, end_vars, fn_vars, dd_vars, tm_vars, extraction_stats,
                   max_retries, attempt, outcomes, sleeps, rt_result>>

RtExhaustedRaises ==
    /\ rt_pc = "loop"
    /\ ~InRange(attempt, max_retries)
    /\ rt_pc' = "raised"
    /\ pc' = "aborted"
    /\ UNCHANGED <<store, listed, valid_urls, df_existing, url_to_post_number, idx,
                   all_comments, failed_urls, df_combined, pg_vars, poll_vars, end_vars, fn_vars, dd_vars, tm_vars,
                   extraction_stats, max_retries, attempt, outcomes, sleeps,
                   rt_result, valid_comments>>

RtExhausted ==
    /\ rt_pc = "loop"
    /\ ~InRange(attempt, max_retries)
    /\ failed_urls' = Append(failed_urls, valid_urls[idx])
    /\ extraction_stats' = [extraction_stats EXCEPT !.failed = @ + 1]
    /\ valid_comments' = <<>>
    /\ rt_pc' = "returned"
    /\ UNCHANGED <<store, pc, listed, valid_urls, df_existing, url_to_post_number,
                   idx, all_comments, df_combined, pg_vars, poll_vars, end_vars, fn_vars, dd_vars, tm_vars,
                   max_retries, attempt, outcomes, sleeps, rt_result>>

\* the rest of the iteration: what the orchestrator puts in all_comments
RtRecord ==
    /\ pc = "urls"
    /\ rt_pc = "returned"
    /\ LET url == valid_urls[idx]
           post_number == url_to_post_number[url]
           platform == detect_platform(url)
       IN IF url \in Range(failed_urls)
          THEN /\ all_comments' =
                     Append(all_comments,
                            create_failed_registry_entry(url, platform, post_number))
               /\ UNCHANGED extraction_stats
          ELSE IF valid_comments = <<>>
          THEN /\ all_comments' =
                     Append(all_comments,
                            create_post_registry_entry(url, platform, post_number))
               /\ extraction_stats' = [extraction_stats EXCEPT !.no_comments = @ + 1]
          ELSE /\ all_comments' = all_comments \o valid_comments
               /\ UNCHANGED extraction_stats
    /\ IF url_pause_due(idx, Len(valid_urls))
       THEN \E pausa \in UrlPauses : last_event' = Slept("url", pausa)
       ELSE UNCHANGED last_event
    /\ idx' = idx + 1
    /\ rt_pc' = "idle"
    /\ UNCHANGED <<store, pc, listed, valid_urls, df_existing, url_to_post_number,
                   failed_urls, df_combined, pg_vars, poll_vars, end_vars, fn_vars, dd_vars,
                   results_limit, raw_items,
                   max_retries, attempt, outcomes, sleeps, rt_result, valid_comments>>

NextRetry ==
    SkipUrl \/ RtCall \/ RtAttempt \/ RtExhausted \/ RtRecord \/ Merge \/ NoNewData \/ Save

SpecRetry == InitRetry /\ [][NextRetry]_vars

\* the code is one thread: a started step of the run is carried out
SpecRetryFair == SpecRetry /\ WF_vars(NextRetry)

\* ------------------------------------------------------------------------
\* Paginated Extraction Controller (scrape_facebook_comments,
\* scrape_instagram_comments, scrape_tiktok_comments).  all_items is the
\* length of the list all_items; jobs counts the calls of client.actor().call
\* ------------------------------------------------------------------------
Platforms == {"Facebook", "Instagram", "TikTok"}

BATCH_SIZE_halved(platform) == IF platform = "Instagram" THEN 750 ELSE 1000

BATCH_SIZE(platform) == IF platform = "Instagram" THEN 1500 ELSE 2000

batches_needed_plus_one(target, batch) == (target + batch) \div batch

batches_needed(target, batch) == (target + batch - 1) \div batch

current_batch_size_no_buffer(batch, remaining_needed) ==
    IF batch <= remaining_needed THEN batch ELSE remaining_needed

\* min(int(BATCH_SIZE * 1.3), remaining_needed + int(remaining_needed * 0.3))
current_batch_size(batch, remaining_needed) ==
    LET a == (batch * 13) \div 10
        b == remaining_needed + (remaining_needed * 3) \div 10
    IN IF a <= b THEN a ELSE b

\* time.sleep(30) between two batches, time.sleep(45) on Instagram
batch_pause(platform) == IF platform = "Instagram" THEN 45 ELSE 30

\* len(unique_batch_items) < BATCH_SIZE * 0.3
diminishing_returns_never(unique_batch_items, batch) == FALSE

diminishing_returns(unique_batch_items, batch) == unique_batch_items * 10 < batch * 3

Targets(platform) ==
    {BATCH_SIZE(platform) * k + d : k \in 0..MaxBatches, d \in {0, 1, 1000}} \ {0}

\* what _wait_for_run_finish gives back: the status of a run in a terminal
\* state it knows, or None after max_wait_time; "EXC" is a call that raises
WaitOutcomes == {"SUCCEEDED", "FAILED", "TIMED-OUT", "None", "EXC"}

\* the items of a succeeded job: raw is len(batch_items), new the number of
\* them whose key is not in seen_comment_hashes
BatchYields ==
    {[raw |-> 0, new |-> 0], [raw |-> 2000, new |-> 0], [raw |-> 400, new |-> 400],
     [raw |-> 600, new |-> 600], [raw |-> 1000, new |-> 1000],
     [raw |-> 1950, new |-> 1950], [raw |-> 2000, new |-> 2000],
     [raw |-> 2600, new |-> 2600]}

InitPage ==
    /\ store = EmptyFrame
    /\ RunIdle
    /\ RtIdle
    /\ PollIdle
    /\ EndIdle
    /\ FnIdle
    /\ DdIdle
    /\ TmIdle
    /\ pg_pc = "start"
    /\ pg_platform \in Platforms
    /\ max_comments \in Targets(pg_platform)
    /\ batch_num = 0
    /\ all_items = 0
    /\ jobs = 0
    /\ run_status = "NotRun"

\* the choice between the single batch and the pagination
PgEnter ==
    /\ pg_pc = "start"
    /\ pg_pc' = IF max_comments <= BATCH_SIZE(pg_platform) THEN "single" ELSE "loop"
    /\ UNCHANGED <<run_vars, rt_vars, poll_vars, end_vars, fn_vars, dd_vars, tm_vars, pg_platform, max_comments, batch_num, all_items, jobs, run_status>>

\* the logging of a job that did not succeed reads run_status.get(...) on
\* Facebook, which raises when _wait_for_run_finish returned None
NotSucceededExit(platform, status) ==
    IF platform = "Facebook" /\ status = "None" THEN "raised" ELSE "returned"

\* _scrape_<platform>_single_batch
PgSingleBatch ==
    /\ pg_pc = "single"
    /\ jobs' = jobs + 1
    /\ results_limit' = max_comments
    /\ last_event' = JobSubmitted
    /\ \E status \in WaitOutcomes, yield \in BatchYields :
          /\ yield.raw <= max_comments
          /\ run_status' = status
          /\ raw_items' = IF status = "SUCCEEDED" THEN yield.raw ELSE 0
          /\ IF status = "EXC"
             THEN pg_pc' = "raised" /\ UNCHANGED all_items
             ELSE IF status # "SUCCEEDED"
             THEN pg_pc' = NotSucceededExit(pg_platform, status) /\ UNCHANGED all_items
             ELSE pg_pc' = "returned" /\ all_items' = yield.new
    /\ UNCHANGED <<run_vars, rt_vars, poll_vars, end_vars, fn_vars, dd_vars,
                   pg_platform, max_comments, batch_num>>

\* one iteration of the loop over range(batches_needed), with the end of the
\* loop and the return when it was the last one; the final _deduplicate_items
\* uses the key of the loop and leaves len(all_items) as it is
PgBatch ==
    /\ pg_pc = "loop"
    /\ batch_num < batches_needed(max_comments, BATCH_SIZE(pg_platform))
    /\ LET batch == BATCH_SIZE(pg_platform)
           remaining_needed == max_comments - all_items
           last == batch_num + 1 >= batches_needed(max_comments, batch)
       IN IF remaining_needed <= 0
          THEN /\ pg_pc' = "returned"
               /\ UNCHANGED <<batch_num, all_items, jobs, run_status, tm_vars>>
          ELSE /\ jobs' = jobs + 1
               /\ results_limit' = current_batch_size(batch, remaining_needed)
               /\ \E status \in WaitOutcomes, yield \in BatchYields :
                     /\ yield.raw <= current_batch_size(batch, remaining_needed)
                     /\ run_status' = status
                     /\ raw_items' = IF status = "SUCCEEDED" THEN yield.raw ELSE 0
                     /\ IF status = "EXC"
                        THEN /\ pg_pc' = "raised"
                             /\ last_event' = JobSubmitted
                             /\ UNCHANGED <<batch_num, all_items>>
                        ELSE IF status # "SUCCEEDED"
                        THEN /\ pg_pc' = NotSucceededExit(pg_platform, status)
                             /\ last_event' = JobSubmitted
                             /\ UNCHANGED <<batch_num, all_items>>
                        ELSE IF yield.raw = 0
                        THEN /\ pg_pc' = "returned"
                             /\ last_event' = JobSubmitted
                             /\ UNCHANGED <<batch_num, all_items>>
                        ELSE /\ all_items' = all_items + yield.new
                             /\ IF \/ all_items' >= max_comments
                                   \/ diminishing_returns(yield.new, batch)
                                THEN /\ pg_pc' = "returned"
                                     /\ last_event' = JobSubmitted
                                     /\ UNCHANGED batch_num
                                ELSE /\ batch_num' = batch_num + 1
                                     /\ pg_pc' = IF last THEN "returned" ELSE "loop"
                                     /\ last_event' =
                                          IF last THEN JobSubmitted
                                          ELSE Slept("batch", batch_pause(pg_platform))
    /\ UNCHANGED <<run_vars, rt_vars, poll_vars, end_vars, fn_vars, dd_vars,
                   pg_platform, max_comments>>

NextPage == PgEnter \/ PgSingleBatch \/ PgBatch

SpecPage == InitPage /\ [][NextPage]_vars

\* the code is one thread: a started step of the extraction is carried out
SpecPageFair == SpecPage /\ WF_vars(NextPage)

\* ------------------------------------------------------------------------
\* The whole pipeline: the orchestrator's loop, scrape_with_retry and, as the
\* extraction function of each attempt, the paginated extraction.  jobs counts
\* the jobs of the attempt under way
\* ------------------------------------------------------------------------
\* settings.get('max_comments_per_post', 4000), and a value under every batch size
PipelineTargets == {1500, 4000}

PipelineUrlLists == RetryUrlLists \cup {<<UrlA, UrlZ>>}

InitPipeline ==
    /\ store = EmptyFrame
    /\ pc = "urls"
    /\ valid_urls \in PipelineUrlLists
    /\ listed = Len(valid_urls)
    /\ df_existing = EmptyFrame
    /\ url_to_post_number = PostNumbers(EmptyFrame, valid_urls)
    /\ idx = 1
    /\ all_comments = <<>>
    /\ failed_urls = <<>>
    /\ df_combined = EmptyFrame
    /\ pg_pc = "idle"
    /\ pg_platform = "None"
    /\ max_comments \in PipelineTargets
    /\ batch_num = 0
    /\ all_items = 0
    /\ jobs = 0
    /\ run_status = "NotRun"
    /\ PollIdle
    /\ EndIdle
    /\ FnIdle
    /\ DdIdle
    /\ TmIdle
    /\ rt_pc = "idle"
    /\ max_retries \in 0..MaxRetries
    /\ attempt = 0
    /\ outcomes = <<>>
    /\ sleeps = <<>>
    /\ rt_result = <<>>
    /\ valid_comments = <<>>
    /\ extraction_stats = ZeroStats

\* comments = scrape_function(url, max_comments): the call, for the platform
\* of the URL
PgCall ==
    /\ rt_pc = "loop"
    /\ InRange(attempt, max_retries)
    /\ pg_pc = "idle"
    /\ pg_pc' = "start"
    /\ pg_platform' = detect_platform(valid_urls[idx])
    /\ batch_num' = 0
    /\ all_items' = 0
    /\ jobs' = 0
    /\ run_status' = "NotRun"
    /\ UNCHANGED <<run_vars, rt_vars, poll_vars, end_vars, fn_vars, dd_vars, tm_vars,
                   max_comments>>

\* the rest of the attempt, once the extraction function has returned its
\* processed items or raised
RtAttemptPaged ==
    /\ rt_pc = "loop"
    /\ InRange(attempt, max_retries)
    /\ pg_pc \in {"returned", "raised"}
    /\ \E outcome \in AttemptOutcomes :
          /\ outcome.raises = (pg_pc = "raised")
          /\ ~outcome.raises => ((outcome.items = <<>>) = (all_items = 0))
          /\ RtAttemptWith(outcome)
    /\ pg_pc' = "idle"
    /\ UNCHANGED <<pg_platform, max_comments, batch_num, all_items, jobs, run_status>>

NextPipeline ==
    \/ SkipUrl \/ RtCall \/ PgCall \/ PgEnter \/ PgSingleBatch \/ PgBatch
    \/ RtAttemptPaged \/ RtExhausted \/ RtRecord \/ Merge \/ NoNewData \/ Save

SpecPipeline == InitPipeline /\ [][NextPipeline]_vars

\* the code is one thread: a started step of the run is carried out
SpecPipelineFair == SpecPipeline /\ WF_vars(NextPipeline)

\* ------------------------------------------------------------------------
\* The deduplication of the paginated extraction, item by item (the loops
\* over batch_items and _deduplicate_items).  An item holds the fields the
\* keys read: text, time (date on Facebook, timestamp on Instagram,
\* createTime on TikTok), createdTime and cid; NoKey is a key the item does
\* not have (for cid also a value that is not truthy)
\* ------------------------------------------------------------------------
NoKey == "<no key>"

RawItem(text, time, createdTime, cid) ==
    [text |-> text, time |-> time, createdTime |-> createdTime, cid |-> cid]

\* the items a dataset can hold, on the fields the platform's key reads
DedupItems(platform) ==
    IF platform = "TikTok"
    THEN {RawItem(x, tc[1], NoKey, tc[2]) :
            x \in {"a", "b"},
            tc \in {<<"t1", "c1">>, <<"t1", NoKey>>, <<NoKey, NoKey>>}}
    ELSE {RawItem(x, tt[1], tt[2], NoKey) :
            x \in {"a", "b"},
            tt \in {<<"t1", "t2">>, <<NoKey, "t1">>, <<NoKey, NoKey>>}}

\* item.get(key, default), the default being the empty string at the end
Get(value, default) == IF value # NoKey THEN value ELSE default

\* unique_key of the loops and of _deduplicate_items; its MD5 is injective
unique_key(platform, item) ==
    IF platform = "TikTok"
    THEN IF item.cid # NoKey THEN <<"cid_", item.cid>>
         ELSE <<item.text, "|", Get(item.time, "")>>
    ELSE <<item.text, "|", Get(item.time, Get(item.createdTime, ""))>>

\* for item in batch_items: ... ; acc holds seen (the set of hashes),
\* unique (unique_batch_items) and dups (duplicates_in_batch)
RECURSIVE dedup_loop(_, _, _)
dedup_loop(platform, items, acc) ==
    IF items = <<>> THEN acc
    ELSE LET item_hash == unique_key(platform, Head(items))
         IN dedup_loop(platform, Tail(items),
                IF item_hash \notin acc.seen
                THEN [acc EXCEPT !.seen = @ \cup {item_hash},
                                 !.unique = Append(@, Head(items))]
                ELSE [acc EXCEPT !.dups = @ + 1])

dedup_batch_fresh_set(platform, items, seen) ==
    LET r == dedup_loop(platform, items, [seen |-> {}, unique |-> <<>>, dups |-> 0])
    IN [r EXCEPT !.seen = @ \cup seen]

\* the deduplication of one batch against seen_comment_hashes
dedup_batch(platform, items, seen) ==
    dedup_loop(platform, items, [seen |-> seen, unique |-> <<>>, dups |-> 0])

\* _deduplicate_items(items, platform)
deduplicate_items(items, platform) ==
    dedup_loop(platform, items, [seen |-> {}, unique |-> <<>>, dups |-> 0]).unique

InitDedup ==
    /\ store = EmptyFrame
    /\ RunIdle
    /\ RtIdle
    /\ PollIdle
    /\ EndIdle
    /\ FnIdle
    /\ DdIdle
    /\ TmIdle
    /\ pg_pc = "loop"
    /\ pg_platform \in Platforms
    /\ max_comments = 0
    /\ batch_num = 0
    /\ all_items = 0
    /\ jobs = 0
    /\ run_status = "NotRun"

\* one iteration of the loop from the dataset on, for a dataset with items:
\* the batch is deduplicated and appended
DdBatch ==
    /\ pg_pc = "loop"
    /\ batch_num < MaxBatches
    /\ \E batch_items \in SeqsUpTo(DedupItems(pg_platform), MaxBatchItems) \ {<<>>} :
          LET r == dedup_batch(pg_platform, batch_items, seen_comment_hashes)
          IN /\ seen_comment_hashes' = r.seen
             /\ duplicates_in_batch' = r.dups
             /\ all_items_list' = all_items_list \o r.unique
    /\ batch_num' = batch_num + 1
    /\ UNCHANGED <<run_vars, rt_vars, poll_vars, end_vars, fn_vars, tm_vars,
                   pg_pc, pg_platform, max_comments, all_items, jobs, run_status>>

\* after the loop, which ends with range(batches_needed) or on one of its
\* breaks (an empty dataset, a job that did not succeed, the counts of
\* PgBatch): all_items = self._deduplicate_items(all_items, platform)
DdFinal ==
    /\ pg_pc = "loop"
    /\ all_items_list' = deduplicate_items(all_items_list, pg_platform)
    /\ pg_pc' = "returned"
    /\ UNCHANGED <<run_vars, rt_vars, poll_vars, end_vars, fn_vars, tm_vars,
                   pg_platform, max_comments, batch_num, all_items, jobs, run_status,
                   seen_comment_hashes, duplicates_in_batch>>

NextDedup == DdBatch \/ DdFinal

SpecDedup == InitDedup /\ [][NextDedup]_vars

\* ------------------------------------------------------------------------
\* Job Poller (_wait_for_run_finish)
\* ------------------------------------------------------------------------
max_wait_time == 600
\* time.sleep(10)
PollInterval == 10

\* the statuses the service reports for a run; the last four are those of a
\* run that has ended
JobStatuses == {"READY", "RUNNING", "SUCCEEDED", "FAILED", "TIMED-OUT", "ABORTED"}
FinishedStatuses == {"SUCCEEDED", "FAILED", "TIMED-OUT", "ABORTED"}

\* the seconds one self.client.run(run["id"]).get() takes
Latencies == {0, 1}

\* run_status["status"] in ["SUCCEEDED", "FAILED", "TIMED-OUT"]
IsTerminal(s) == s \in {"SUCCEEDED", "FAILED", "TIMED-OUT"}

\* time.time() - start_time > max_wait_time
WaitExceededNever(now) == FALSE

WaitExceeded(now) == now > max_wait_time

InitPoll ==
    /\ store = EmptyFrame
    /\ RunIdle
    /\ PgIdle
    /\ RtIdle
    /\ EndIdle
    /\ FnIdle
    /\ DdIdle
    /\ TmIdle
    /\ poll_pc = "poll"
    /\ elapsed = 0
    /\ job_status = "READY"
    /\ polls = 0
    /\ slept = 0
    /\ returned = "NotRun"

\* one iteration of while True
Poll ==
    /\ poll_pc = "poll"
    /\ polls' = polls + 1
    /\ \E s \in JobStatuses, latency \in Latencies :
          LET now == elapsed + latency
          IN /\ job_status' = s
             /\ IF IsTerminal(s)
                THEN /\ returned' = s
                     /\ poll_pc' = "done"
                     /\ elapsed' = now
                     /\ UNCHANGED slept
                ELSE IF WaitExceeded(now)
                THEN /\ returned' = "None"
                     /\ poll_pc' = "done"
                     /\ elapsed' = now
                     /\ UNCHANGED slept
                ELSE /\ elapsed' = now + PollInterval
                     /\ slept' = slept + PollInterval
                     /\ UNCHANGED <<poll_pc, returned>>
    /\ UNCHANGED <<run_vars, pg_vars, rt_vars, end_vars, fn_vars, dd_vars, tm_vars>>

NextPoll == Poll

SpecPoll == InitPoll /\ [][NextPoll]_vars

\* the code is one thread: a started poll is carried out
SpecPollFair == SpecPoll /\ WF_vars(NextPoll)

\* ------------------------------------------------------------------------
\* Platform Resolver applied to given URLs
\* ------------------------------------------------------------------------
Domains ==
    {"facebook.com", "fb.com", "fb.me", "instagram.com", "tiktok.com",
     "vt.tiktok.com", "example.org", "FACEBOOK.COM", "Instagram.com", "TikTok.com"}

\* the URLs, the empty string among them; a URL that holds vt.tiktok.com holds
\* tiktok.com
ResolverUrls ==
    {Url(d, p, "") : d \in {x \in SUBSET Domains :
                              "vt.tiktok.com" \in x => "tiktok.com" \in x},
                    p \in {"", "p1"}}

InitResolve ==
    /\ store = EmptyFrame
    /\ RunIdle
    /\ PgIdle
    /\ RtIdle
    /\ PollIdle
    /\ EndIdle
    /\ DdIdle
    /\ TmIdle
    /\ fn_pc = "resolve"
    /\ url_in \in ResolverUrls
    /\ platform_out = "NotRun"
    /\ row_a = <<>>
    /\ row_b = <<>>
    /\ hash_a = "NotRun"
    /\ hash_b = "NotRun"

Resolve ==
    /\ fn_pc = "resolve"
    /\ platform_out' = detect_platform(url_in)
    /\ fn_pc' = "resolved"
    /\ UNCHANGED <<run_vars, pg_vars, rt_vars, poll_vars, end_vars, dd_vars, tm_vars,
                   url_in, row_a, row_b, hash_a, hash_b>>

NextResolve == Resolve

SpecResolve == InitResolve /\ [][NextResolve]_vars

\* ------------------------------------------------------------------------
\* Identity Hasher applied to given rows
\* ------------------------------------------------------------------------
\* the values of created_time: absent, the empty string, a number, the decimal
\* string of that number, a date-time string of the same instant, strings that
\* are neither
HashTimes ==
    {NaT, StrTs(<<>>), Epoch(1000), Float(1000, 5), StrTs(<<"1", "0", "0", "0">>),
     StrTs(<<"1970-01-01 00:16:40">>), StrTs(<<"hace 2 horas">>), StrTs(<<"ayer">>)}

HashRow(url, platform, text, time, status, author, likes) ==
    [post_url |-> url, post_number |-> 1, platform |-> platform,
     comment_text |-> text, created_time |-> time, extraction_status |-> status,
     author_name |-> author, likes_count |-> likes]

HashComments ==
    {HashRow(u, p, x, t, "NaN", a.name, a.likes) :
        u \in {UrlA, UrlB}, p \in {"Facebook", "facebook"},
        x \in {"nice", " nice ", "great product"}, t \in HashTimes,
        a \in {[name |-> "ana", likes |-> 0], [name |-> "luis", likes |-> 7]}}

HashPlaceholders ==
    {HashRow(u, p, NA, NaT, st, NA, 0) :
        u \in {UrlA, UrlB}, p \in {"Facebook", "facebook"},
        st \in {"NO_COMMENTS", "FAILED"}}

InitHash ==
    /\ store = EmptyFrame
    /\ RunIdle
    /\ PgIdle
    /\ RtIdle
    /\ PollIdle
    /\ EndIdle
    /\ DdIdle
    /\ TmIdle
    /\ fn_pc = "hash"
    /\ url_in = Url({}, "", "")
    /\ platform_out = "NotRun"
    /\ row_a \in HashComments \cup HashPlaceholders
    /\ row_b \in HashComments
    /\ hash_a = "NotRun"
    /\ hash_b = "NotRun"

\* df.apply(create_unique_comment_hash, axis=1) on the two rows
HashRows ==
    /\ fn_pc = "hash"
    /\ hash_a' = create_unique_comment_hash(row_a)
    /\ hash_b' = create_unique_comment_hash(row_b)
    /\ fn_pc' = "hashed"
    /\ UNCHANGED <<run_vars, pg_vars, rt_vars, poll_vars, end_vars, dd_vars, tm_vars,
                   url_in, platform_out, row_a, row_b>>

NextHash == HashRows

SpecHash == InitHash /\ [][NextHash]_vars

\* ------------------------------------------------------------------------
\* Properties of the merge and of the run
\* ------------------------------------------------------------------------
HashCount(rows, h) == Count(rows, LAMBDA r : create_unique_comment_hash(r) = h)
SameRows(a, b) == \A r \in Range(a) \cup Range(b) :
                     Count(a, LAMBDA x : x = r) = Count(b, LAMBDA x : x = r)
CommentsOf(rows, url) == Count(rows, LAMBDA r : IsComment(r) /\ r.post_url = url)
PlaceholdersOf(rows, url) == Count(rows, LAMBDA r : IsPlaceholder(r) /\ r.post_url = url)
StatusOf(rows, url, status) ==
    Count(rows, LAMBDA r : IsPlaceholder(r) /\ r.post_url = url /\ r.extraction_status = status)
Batch == NewFrame(all_comments)
AfterMerge == pc = "merged" /\ all_comments # <<>>

\* C1: merging the batch of a run a second time into the store that the first
\* merge produced gives a store with exactly the same rows: no Comment row and
\* no placeholder row is added, no row is removed.  Stated of the merge result
\* itself and of the sorted frame the run saves.
IdempotentMerge ==
    AfterMerge =>
        LET once == merge_comments(df_existing, Batch)
            twice == merge_comments(once, Batch)
        IN /\ SameRows(twice.rows, once.rows)
           /\ SameRows(merge_comments(df_combined, Batch).rows, df_combined.rows)

\* a merge into a non-empty store of a batch that holds both a row the store
\* already has and a row it has not
IdempotentMergeWitness ==
    /\ AfterMerge
    /\ ~IsEmpty(df_existing)
    /\ \E i, j \in 1..Len(all_comments) :
          /\ create_unique_comment_hash(all_comments[i]) \in Hashes(df_existing.rows)
          /\ create_unique_comment_hash(all_comments[j]) \notin Hashes(df_existing.rows)

\* C2: the persisted store never holds two real Comment rows with the same
\* fingerprint.
AtMostOneMergedCopy ==
    \A i, j \in 1..Len(store.rows) :
        (i < j /\ IsComment(store.rows[i]) /\ IsComment(store.rows[j]))
        => create_unique_comment_hash(store.rows[i]) # create_unique_comment_hash(store.rows[j])

\* C3: when a non-empty store is merged with a batch, a batch row whose
\* fingerprint is in the store is not added, and every batch row whose
\* fingerprint is not in the store is added.
CrossRunDeduplication ==
    (AfterMerge /\ ~IsEmpty(df_existing)) =>
        \A i \in 1..Len(all_comments) :
            LET h == create_unique_comment_hash(all_comments[i])
            IN IF h \in Hashes(df_existing.rows)
               THEN HashCount(df_combined.rows, h) <= HashCount(df_existing.rows, h)
               ELSE HashCount(df_combined.rows, h) = HashCount(all_comments, h)

\* the scenario store {C}, batch {C, D}: the merged store is {C, D}
CrossRunDeduplicationWitness ==
    /\ AfterMerge
    /\ Len(df_existing.rows) = 1 /\ IsComment(df_existing.rows[1])
    /\ Len(all_comments) = 2
    /\ create_unique_comment_hash(all_comments[1]) = create_unique_comment_hash(df_existing.rows[1])
    /\ create_unique_comment_hash(all_comments[2]) # create_unique_comment_hash(df_existing.rows[1])
    /\ Len(df_combined.rows) = 2

\* C4: every real Comment row of the persisted store is still in the persisted
\* store after every step of a run, whatever the outcome of the run's steps.
NoLossOfRecordedState ==
    [][\A i \in 1..Len(store.rows) :
          IsComment(store.rows[i]) =>
              create_unique_comment_hash(store.rows[i]) \in Hashes(store'.rows)]_vars

RetirementOfBothKinds ==
    AfterMerge =>
        \A url \in InputUrls :
            CommentsOf(df_combined.rows, url) > CommentsOf(df_existing.rows, url)
            => PlaceholdersOf(df_combined.rows, url) = 0

\* C7: the persisted store holds at most one placeholder row per post URL.
AtMostOnePlaceholderPerPost ==
    \A url \in InputUrls : PlaceholdersOf(store.rows, url) <= 1

\* C8: once a post URL has a post number in the persisted store, every later
\* run uses that number for the URL and every row of the URL keeps it.
PostNumberStability ==
    [][\A i \in 1..Len(store.rows) :
          LET r == store.rows[i]
          IN /\ r.post_url \in DOMAIN url_to_post_number'
                => url_to_post_number'[r.post_url] = r.post_number
             /\ \A j \in 1..Len(store'.rows) :
                   store'.rows[j].post_url = r.post_url
                   => store'.rows[j].post_number = r.post_number]_vars

\* C9: two listed URLs that differ only in the query string get the same post
\* number, and every row of the batch is keyed under the URL without its query
\* string.
CanonicalPostIdentity ==
    /\ \A u, w \in DOMAIN url_to_post_number :
          clean_url(u) = clean_url(w) => url_to_post_number[u] = url_to_post_number[w]
    /\ \A i \in 1..Len(all_comments) :
          all_comments[i].post_url = clean_url(all_comments[i].post_url)

\* ------------------------------------------------------------------------
\* Properties of the paginated extraction
\* ------------------------------------------------------------------------
CeilDiv(a, b) == CHOOSE n \in 0..a : n * b >= a /\ (n - 1) * b < a
Paginated == max_comments > BATCH_SIZE(pg_platform)
PgEnded == pg_pc \in {"returned", "raised"}

DiminishingReturnsStop ==
    [][/\ (/\ pg_pc = "loop"
           /\ jobs' = jobs + 1
           /\ run_status' = "SUCCEEDED"
           /\ (all_items' - all_items) * 10 < BATCH_SIZE(pg_platform) * 3)
          => (pg_pc' = "returned" /\ all_items' >= all_items)
       /\ pg_pc = "returned" => (jobs' = jobs /\ all_items' = all_items)]_vars

\* the scenario: target 5000, ceiling 2000, yields 2000 then 400
DiminishingReturnsStopWitness ==
    /\ pg_platform = "Facebook"
    /\ max_comments = 5000
    /\ pg_pc = "returned"
    /\ run_status = "SUCCEEDED"
    /\ jobs = 2
    /\ all_items = 2400

\* ------------------------------------------------------------------------
\* Properties of the retry controller
\* ------------------------------------------------------------------------
Last(s) == s[Len(s)]
NoValid(o) == \A i \in 1..Len(o) : o[i] # "valid"
Exhausted == Len(outcomes) = max_retries /\ NoValid(outcomes)
BlankText(r) == r.comment_text \in {NA, "", " ", "  "}
\* the URL scrape_with_retry was last called for
RtUrl == IF rt_pc = "idle" THEN valid_urls[idx - 1] ELSE valid_urls[idx]
Recorded == rt_pc = "idle" /\ outcomes # <<>> /\ pc \in {"urls", "merged"}

\* C12: the extraction function is invoked at most max_retries times for one
\* URL, no invocation follows an attempt that gave a valid comment, and
\* scrape_with_retry returns the valid comments of that attempt.
BoundedRetriesEarlySuccess ==
    /\ Len(outcomes) <= max_retries
    /\ \A i \in 1..Len(outcomes) : outcomes[i] = "valid" => i = Len(outcomes)
    /\ (outcomes # <<>> /\ Last(outcomes) = "valid")
       => /\ rt_pc \in {"returned", "idle"}
          /\ valid_comments # <<>>
          /\ valid_comments = SelectSeq(rt_result, LAMBDA r : ~BlankText(r))

\* a success on the second of three attempts
BoundedRetriesEarlySuccessWitness ==
    /\ max_retries = 3
    /\ rt_pc = "returned"
    /\ outcomes = <<"raised", "valid">>
    /\ valid_comments # <<>>

\* C13: when every one of the max_retries attempts raised or gave no valid
\* comment, scrape_with_retry returns the empty list, appends the URL to
\* failed_urls and adds exactly 1 to the statistic failed, which no other step
\* of the loop over the URLs changes; the orchestrator then appends a FAILED
\* placeholder of the URL to the batch.
RetryExhaustion ==
    [][/\ (rt_pc = "loop" /\ rt_pc' # "loop" /\ Exhausted')
          => /\ rt_pc' = "returned"
             /\ valid_comments' = <<>>
             /\ failed_urls' = Append(failed_urls, valid_urls[idx])
             /\ extraction_stats'.failed = extraction_stats.failed + 1
       /\ (pc = "urls" /\ extraction_stats'.failed # extraction_stats.failed)
          => (rt_pc = "loop" /\ rt_pc' # "loop" /\ Exhausted')
       /\ (rt_pc = "returned" /\ rt_pc' = "idle" /\ Exhausted)
          => /\ Len(all_comments') = Len(all_comments) + 1
             /\ Last(all_comments').post_url = valid_urls[idx]
             /\ IsPlaceholder(Last(all_comments'))
             /\ Last(all_comments').extraction_status = "FAILED"]_vars

\* the scenario: the extraction raises on all 3 configured attempts
RetryExhaustionWitness ==
    /\ Recorded
    /\ max_retries = 3
    /\ outcomes = <<"raised", "raised", "raised">>
    /\ failed_urls = <<UrlA>>
    /\ extraction_stats.failed = 1
    /\ Len(all_comments) = 1
    /\ all_comments[1].post_url = UrlA
    /\ all_comments[1].extraction_status = "FAILED"

\* C14: when the first attempt for a URL returns zero items, the extraction
\* function is invoked exactly once for that URL, the URL is not in
\* failed_urls, the statistic no_comments is increased and the row put in the
\* batch is a NO_COMMENTS placeholder.
EmptyResultIsNoComments ==
    (pc \in {"urls", "merged"} /\ outcomes # <<>> /\ outcomes[1] = "empty")
    => /\ Len(outcomes) = 1
       /\ RtUrl \notin Range(failed_urls)
       /\ Recorded
          => /\ extraction_stats.no_comments >= 1
             /\ IsPlaceholder(Last(all_comments))
             /\ Last(all_comments).extraction_status = "NO_COMMENTS"

\* C15: after the failed attempt k of a URL, whether it raised or gave no
\* valid comment, the controller has slept k * 30 seconds when k < max_retries,
\* and nothing after the last attempt: the sleeps of a URL are 30, 60, ...
LinearBackoff ==
    LET failures == Count(outcomes, LAMBDA o : o # "valid")
        waits == IF failures < max_retries THEN failures ELSE max_retries - 1
    IN /\ Len(sleeps) = IF max_retries = 0 THEN 0 ELSE waits
       /\ \A k \in 1..Len(sleeps) : sleeps[k] = k * 30
       /\ Len(outcomes) <= Len(sleeps) + 1

\* three failed attempts of different kinds: two sleeps, none after the last
LinearBackoffWitness ==
    /\ max_retries = 3
    /\ rt_pc = "returned"
    /\ outcomes = <<"empty", "raised", "invalid">>
    /\ sleeps = <<30, 60>>

OnlyValidRecordsLeave ==
    /\ [](\A i \in 1..Len(valid_comments) :
             /\ ~BlankText(valid_comments[i])
             /\ valid_comments[i].platform \in Platforms
             /\ valid_comments[i].post_url \in InputUrls)
    /\ [](\A i \in 1..Len(all_comments) :
             IsComment(all_comments[i]) => ~BlankText(all_comments[i]))
    /\ [][(Len(outcomes') = Len(outcomes) + 1 /\ Last(outcomes') # "raised")
             => /\ extraction_stats'.invalid_comments
                      = extraction_stats.invalid_comments + Count(rt_result', BlankText)
                /\ (\E i \in 1..Len(rt_result') : ~BlankText(rt_result'[i]))
                   => (rt_pc' = "returned" /\ Last(outcomes') = "valid")]_vars

\* a result with one malformed and one valid record, returned at once
OnlyValidRecordsLeaveWitness ==
    /\ rt_pc = "returned"
    /\ Len(outcomes) = 1
    /\ Len(rt_result) = 2
    /\ Len(valid_comments) = 1
    /\ extraction_stats.invalid_comments = 1

\* ------------------------------------------------------------------------
\* Properties of the job poller
\* ------------------------------------------------------------------------
\* C18: whatever statuses the service reports, _wait_for_run_finish returns:
\* with the status of the poll that observed a finished run, or with None when
\* more than max_wait_time seconds have elapsed; a poll that sees SUCCEEDED,
\* FAILED or TIMED-OUT returns at once, and every poll that does not return is
\* followed by a sleep of exactly 10 seconds, so that the wait never lasts
\* longer than max_wait_time plus one interval before the next check.
PollingNeverBlocks ==
    /\ <>(poll_pc = "done")
    /\ [](poll_pc = "done" =>
             \/ returned = "None" /\ elapsed > 600
             \/ returned = job_status /\ job_status \in FinishedStatuses)
    /\ [](poll_pc = "poll" => (elapsed <= 600 + 10 /\ slept = 10 * polls))
    /\ [][(poll_pc = "poll" /\ job_status' \in {"SUCCEEDED", "FAILED", "TIMED-OUT"})
             => (poll_pc' = "done" /\ returned' = job_status')]_vars

\* a run that never reached a terminal state: the timeout after 61 sleeps
PollingNeverBlocksWitness ==
    /\ poll_pc = "done"
    /\ returned = "None"
    /\ job_status = "RUNNING"
    /\ slept = 610
    /\ polls = 62

\* C19: a poll that observes SUCCEEDED, FAILED, TIMED-OUT or ABORTED returns
\* that status at once, with no further poll and no sleep.
FourTerminalStatesEndPolling ==
    [][(poll_pc = "poll" /\ job_status' \in {"SUCCEEDED", "FAILED", "TIMED-OUT", "ABORTED"})
          => (poll_pc' = "done" /\ returned' = job_status' /\ slept' = slept)]_vars

\* ------------------------------------------------------------------------
\* Properties of a single job
\* ------------------------------------------------------------------------
\* C20: when the job of a single-batch extraction did not end as SUCCEEDED
\* (FAILED, TIMED-OUT, or no status because the poller gave up), the extraction
\* returns, with an empty list of items, and does not raise.
SingleJobFailureSignaling ==
    (/\ ~Paginated
     /\ PgEnded
     /\ run_status \in {"FAILED", "TIMED-OUT", "None"})
    => (pg_pc = "returned" /\ all_items = 0)

\* ------------------------------------------------------------------------
\* Properties of the multi-batch extraction
\* ------------------------------------------------------------------------
\* C21: in the multi-batch extraction of every platform, when the job of a
\* batch after the first does not end as SUCCEEDED (FAILED, TIMED-OUT, or no
\* status because the poller gave up), no further job is submitted and the
\* extraction returns with the items accumulated from the batches before it.
PartialResultsSurvive ==
    [][/\ (/\ pg_pc = "loop"
           /\ jobs >= 1
           /\ jobs' = jobs + 1
           /\ run_status' \in {"FAILED", "TIMED-OUT", "None"})
          => (pg_pc' = "returned" /\ all_items' = all_items)
       /\ pg_pc \in {"returned", "raised"} => jobs' = jobs]_vars

\* C29: the number of items accumulated by the multi-batch extraction of one
\* URL never exceeds target_count.
UpToTargetCount ==
    Paginated => all_items <= max_comments

\* ------------------------------------------------------------------------
\* Properties of the platform resolver
\* ------------------------------------------------------------------------
FacebookDomains == {"facebook.com", "fb.com", "fb.me", "FACEBOOK.COM"}
InstagramDomains == {"instagram.com", "Instagram.com"}
TikTokDomains == {"tiktok.com", "vt.tiktok.com", "TikTok.com"}

\* C30: detect_platform gives Facebook for a URL that holds a Facebook domain in
\* any letter case, whatever else it holds; otherwise Instagram when it holds
\* the Instagram domain; otherwise TikTok when it holds a TikTok domain; and
\* None for every other URL, the empty one included.
PlatformResolutionPriority ==
    fn_pc = "resolved" =>
        LET fb == url_in.doms \cap FacebookDomains # {}
            ig == url_in.doms \cap InstagramDomains # {}
            tt == url_in.doms \cap TikTokDomains # {}
        IN /\ fb => platform_out = "Facebook"
           /\ (~fb /\ ig) => platform_out = "Instagram"
           /\ (~fb /\ ~ig /\ tt) => platform_out = "TikTok"
           /\ (~fb /\ ~ig /\ ~tt) => platform_out = "None"

\* a URL that holds a Facebook domain in capitals next to the Instagram and
\* TikTok domains
PlatformResolutionPriorityWitness ==
    /\ fn_pc = "resolved"
    /\ url_in.doms = {"FACEBOOK.COM", "instagram.com", "tiktok.com"}
    /\ platform_out = "Facebook"

\* ------------------------------------------------------------------------
\* Properties of the identity hasher
\* ------------------------------------------------------------------------
Hashed == fn_pc = "hashed"
BothComments == IsComment(row_a) /\ IsComment(row_b)
SamePost(a, b) == Lower(a.platform) = Lower(b.platform) /\ a.post_url = b.post_url
SameText(a, b) == Strip(a.comment_text) = Strip(b.comment_text)
Absent(t) == t = NaT \/ t = StrTs(<<>>)
Unparsable(t) == t \in {StrTs(<<"hace 2 horas">>), StrTs(<<"ayer">>)}

\* C24: two Comment rows with the same platform up to letter case, the same
\* post URL, the same trimmed text and the same normalized timestamp have the
\* same fingerprint, whatever their author name and like count; an integer
\* epoch value and its decimal string are such a pair.
FingerprintStability ==
    (Hashed /\ BothComments /\ SamePost(row_a, row_b) /\ SameText(row_a, row_b)) =>
        /\ normalize_timestamp_for_hash(row_a.created_time)
              = normalize_timestamp_for_hash(row_b.created_time)
           => hash_a = hash_b
        /\ (/\ row_a.created_time = Epoch(1000)
            /\ row_b.created_time = StrTs(<<"1", "0", "0", "0">>))
           => hash_a = hash_b

\* the integer 1000 and the string "1000", with different authors, letter
\* case of the platform and blanks around the text
FingerprintStabilityWitness ==
    /\ Hashed
    /\ row_a.created_time = Epoch(1000)
    /\ row_b.created_time = StrTs(<<"1", "0", "0", "0">>)
    /\ row_a.platform = "Facebook" /\ row_b.platform = "facebook"
    /\ row_a.post_url = row_b.post_url
    /\ row_a.comment_text = "nice" /\ row_b.comment_text = " nice "
    /\ row_a.author_name # row_b.author_name
    /\ hash_a = hash_b

\* C25: two Comment rows with the same platform, post URL and text whose
\* timestamps are each absent or unparsable have the same fingerprint.
TimestampSentinel ==
    (/\ Hashed /\ BothComments /\ SamePost(row_a, row_b) /\ SameText(row_a, row_b)
     /\ Absent(row_a.created_time) \/ Unparsable(row_a.created_time)
     /\ Absent(row_b.created_time) \/ Unparsable(row_b.created_time))
    => hash_a = hash_b

\* C26: the fingerprint of a placeholder row differs from the fingerprint of
\* every real Comment row, and a merge of a store that holds the one with a
\* batch that holds the other keeps the batch's row.
DisjointKeySpaces ==
    (Hashed /\ IsPlaceholder(row_a) /\ IsComment(row_b)) =>
        /\ hash_a # hash_b
        /\ LET frame(r) == [status_col |-> TRUE, rows |-> <<r>>]
               into_store == merge_comments(frame(row_a), frame(row_b)).rows
               into_comments == merge_comments(frame(row_b), frame(row_a)).rows
           IN /\ \E i \in 1..Len(into_store) : into_store[i] = row_b
              /\ \E i \in 1..Len(into_comments) : into_comments[i] = row_a
              /\ \E i \in 1..Len(into_comments) :
                    create_unique_comment_hash(into_comments[i]) = hash_b

\* a placeholder and a comment of the same post
DisjointKeySpacesWitness ==
    /\ Hashed
    /\ IsPlaceholder(row_a)
    /\ IsComment(row_b)
    /\ SamePost(row_a, row_b)
    /\ hash_a.kind = "REGISTRY"
    /\ hash_b.kind = "MD5"

\* ------------------------------------------------------------------------
\* Further properties of the merge
\* ------------------------------------------------------------------------
\* C27: after a merge of a store with a batch every post URL that had a row in
\* the store has a row in the merged store, and every real Comment row of the
\* store is in the merged store with its text, timestamp and post number.
PostsNeverDeleted ==
    AfterMerge =>
        \A i \in 1..Len(df_existing.rows) :
            LET r == df_existing.rows[i]
            IN /\ \E j \in 1..Len(df_combined.rows) :
                     df_combined.rows[j].post_url = r.post_url
               /\ IsComment(r) =>
                     \E j \in 1..Len(df_combined.rows) :
                        /\ df_combined.rows[j].post_url = r.post_url
                        /\ df_combined.rows[j].comment_text = r.comment_text
                        /\ df_combined.rows[j].created_time = r.created_time
                        /\ df_combined.rows[j].post_number = r.post_number

\* a store with comments of one post and a placeholder of another, merged with
\* a batch of comments of the second post
PostsNeverDeletedWitness ==
    /\ AfterMerge
    /\ \E i, j \in 1..Len(df_existing.rows) :
          /\ IsComment(df_existing.rows[i])
          /\ IsPlaceholder(df_existing.rows[j])
          /\ CommentsOf(all_comments, df_existing.rows[j].post_url) > 0
          /\ PlaceholdersOf(df_combined.rows, df_existing.rows[j].post_url) = 0
          /\ CommentsOf(all_comments, df_existing.rows[i].post_url) = 0

\* C28: a run on an empty store with one URL whose extraction returns k
\* comments with k different fingerprints gives a merged store of exactly k
\* Comment rows, all with post number 1, and no placeholder row.
BasicMergeIntoEmptyStore ==
    (/\ AfterMerge
     /\ IsEmpty(df_existing)
     /\ Len(valid_urls) = 1
     /\ \A i \in 1..Len(all_comments) : IsComment(all_comments[i])
     /\ Cardinality(Hashes(all_comments)) = Len(all_comments))
    => /\ Len(df_combined.rows) = Len(all_comments)
       /\ \A j \in 1..Len(df_combined.rows) :
             /\ IsComment(df_combined.rows[j])
             /\ df_combined.rows[j].post_number = 1
             /\ df_combined.rows[j].post_url = valid_urls[1]

\* an Instagram URL with two comments on the empty store
BasicMergeIntoEmptyStoreWitness ==
    /\ AfterMerge
    /\ store = EmptyFrame
    /\ valid_urls = <<UrlB>>
    /\ Len(all_comments) = 2
    /\ Len(df_combined.rows) = 2
    /\ \A j \in 1..2 : IsComment(df_combined.rows[j]) /\ df_combined.rows[j].post_number = 1


\* ---- the end of a run ----

\* C22: when writing the store fails, the run is not reported as saved and the
\* stored file is left exactly as it was before the run
PersistenceFailureKeepsStore ==
    [][(pc = "merged" /\ save_returned' = "False")
         => (run_log' # "FileSaved" /\ store' = store)]_vars

AbortedAtStartup == run_log \in {"NoToken", "ConfigFailed"}

\* C23: a run that ends on a missing token or a configuration load failure
\* has submitted no job, has not loaded the stored file and leaves it as it was
ConfigFailureAbortsFirst ==
    /\ [](AbortedAtStartup =>
            /\ pc = "idle"
            /\ df_existing = EmptyFrame
            /\ extraction_stats = ZeroStats
            /\ save_returned = "NotRun")
    /\ [][(pc = "idle" /\ AbortedAtStartup')
           => (store' = store /\ df_existing' = df_existing
               /\ all_comments' = all_comments
               /\ extraction_stats' = extraction_stats)]_vars

ConfigFailureAbortsFirstWitness ==
    /\ run_log = "ConfigFailed"
    /\ listed > 0
    /\ ~IsEmpty(store)

\* ---- the orchestrator's loop ----

\* C32: when scrape_with_retry returns a non-empty list for the URL of the
\* iteration, the iteration appends exactly those comments to all_comments
\* (and so no FAILED placeholder), whatever happened to the same URL earlier
\* in the list
SuccessfulCommentsReachBatch ==
    [][(rt_pc = "returned" /\ rt_pc' = "idle" /\ valid_comments # <<>>)
         => all_comments' = all_comments \o valid_comments]_vars

\* C33: every URL of valid_urls the loop has gone through has a row, a
\* comment or a placeholder, in all_comments, the batch the merger is given
EveryListedPostRecorded ==
    pc \in {"urls", "merged"} =>
        \A i \in 1..(idx - 1) :
            \E j \in 1..Len(all_comments) : all_comments[j].post_url = valid_urls[i]

\* C34: the store never holds a comment and a placeholder of one post URL
NoCommentsNextToPlaceholder ==
    \A i, j \in 1..Len(store.rows) :
        (IsComment(store.rows[i]) /\ IsPlaceholder(store.rows[j]))
            => store.rows[i].post_url # store.rows[j].post_url

StoredNumbers == {store.rows[i].post_number : i \in 1..Len(store.rows)}
StoredUrls == {store.rows[i].post_url : i \in 1..Len(store.rows)}

\* C35: at the start of a run a URL that is not in the store gets a number
\* greater than every number in the store and than the numbers given before
\* it in the run, no two URLs get one number, and on an empty store the
\* numbers are 1, 2, 3, ... in the order of the list
PostNumbersUniqueSequential ==
    [][(pc = "idle" /\ pc' = "urls") =>
        LET number == url_to_post_number'
            urls == valid_urls'
            First(i) == \A k \in 1..(i - 1) : urls[k] # urls[i]
            IsNew(i) == First(i) /\ urls[i] \notin StoredUrls
        IN /\ \A i \in 1..Len(urls) :
                 IsNew(i) => \A n \in StoredNumbers : number[urls[i]] > n
           /\ \A i, j \in 1..Len(urls) :
                 (i < j /\ IsNew(j)) => number[urls[i]] < number[urls[j]]
           /\ \A u, v \in DOMAIN number : u # v => number[u] # number[v]
           /\ IsEmpty(store) =>
                 \A i \in 1..Len(urls) :
                     First(i) => number[urls[i]] = Cardinality({urls[k] : k \in 1..i})]_vars

\* C36: after every completed call of scrape_with_retry total_attempts =
\* successful + failed and failed = len(failed_urls); a call adds one to
\* total_attempts when it starts and one to successful or to failed, not to
\* both, when it returns
RunStatisticsConsistency ==
    /\ [](rt_pc \in {"idle", "returned"} =>
            /\ extraction_stats.total_attempts =
                  extraction_stats.successful + extraction_stats.failed
            /\ extraction_stats.failed = Len(failed_urls))
    /\ [](rt_pc = "loop" =>
            extraction_stats.total_attempts =
              extraction_stats.successful + extraction_stats.failed + 1)
    /\ [][(rt_pc = "idle" /\ rt_pc' = "loop")
            => extraction_stats'.total_attempts = extraction_stats.total_attempts + 1]_vars
    /\ [][(rt_pc = "loop" /\ rt_pc' = "returned") =>
            /\ extraction_stats'.total_attempts = extraction_stats.total_attempts
            /\ \/ /\ extraction_stats'.successful = extraction_stats.successful + 1
                  /\ extraction_stats'.failed = extraction_stats.failed
               \/ /\ extraction_stats'.successful = extraction_stats.successful
                  /\ extraction_stats'.failed = extraction_stats.failed + 1]_vars

RunStatisticsConsistencyWitness ==
    /\ rt_pc = "returned"
    /\ extraction_stats.successful = 1
    /\ extraction_stats.failed = 1
    /\ extraction_stats.total_attempts = 2
    /\ Len(failed_urls) = 1

\* ---- the requests of a paginated extraction ----

MinOf2(a, b) == IF a <= b THEN a ELSE b
\* floor(1.3 x ceiling)
RequestCap == (13 * BATCH_SIZE(pg_platform)) \div 10
Remaining == max_comments - all_items
LoopSubmission == pg_pc = "loop" /\ jobs' = jobs + 1

\* C38 as stated: every job of the multi-batch extraction is submitted with
\* remaining > 0 and asks for min(floor(1.3 x ceiling), remaining +
\* floor(0.3 x remaining)) items, which is at most floor(1.3 x ceiling) and
\* at least remaining
BatchRequestNeverBelowRemaining ==
    [][LoopSubmission =>
        /\ Remaining > 0
        /\ results_limit' = MinOf2(RequestCap, Remaining + (3 * Remaining) \div 10)
        /\ results_limit' <= RequestCap
        /\ results_limit' >= Remaining]_vars

\* C38 amended: every job of the multi-batch extraction is submitted with
\* remaining > 0 and asks for min(floor(1.3 x ceiling), remaining +
\* floor(0.3 x remaining)) items, which is at most floor(1.3 x ceiling) and
\* at least the smaller of remaining and floor(1.3 x ceiling)
BatchRequestSize ==
    [][LoopSubmission =>
        /\ Remaining > 0
        /\ results_limit' = MinOf2(RequestCap, Remaining + (3 * Remaining) \div 10)
        /\ results_limit' <= RequestCap
        /\ results_limit' >= MinOf2(Remaining, RequestCap)]_vars

\* the second job of a Facebook extraction of 3000 comments, after a first
\* batch of 2000: 1000 remain and 1300 are asked for
BatchRequestSizeWitness ==
    /\ pg_platform = "Facebook"
    /\ max_comments = 3000
    /\ jobs = 2
    /\ results_limit = 1300

\* C39: an extraction whose target is at most the ceiling of its platform
\* (2000, Instagram 1500) submits exactly one job; in the loop a succeeded
\* job with no items ends the extraction with the items it had, and an
\* extraction that has ended submits no job
SingleJobBelowCeiling ==
    /\ []((max_comments <= (IF pg_platform = "Instagram" THEN 1500 ELSE 2000))
            => /\ jobs <= 1
               /\ pg_pc \in {"returned", "raised"} => jobs = 1)
    /\ [][(LoopSubmission /\ run_status' = "SUCCEEDED" /\ raw_items' = 0)
            => (pg_pc' = "returned" /\ all_items' = all_items)]_vars
    /\ [][(pg_pc \in {"returned", "raised"}) => (jobs' = jobs)]_vars

SingleJobBelowCeilingWitness ==
    /\ pg_pc = "returned"
    /\ pg_platform = "Instagram"
    /\ max_comments = 1500
    /\ jobs = 1
    /\ all_items > 0

\* ---- the deduplication across batches ----

KeysOf(items) == {unique_key(pg_platform, items[i]) : i \in 1..Len(items)}

\* C31: an item whose key was seen in this or an earlier batch of the URL is
\* not appended, so all_items never holds two items with one key
CrossBatchDeduplication ==
    /\ [](\A i, j \in 1..Len(all_items_list) :
             i # j => unique_key(pg_platform, all_items_list[i])
                        # unique_key(pg_platform, all_items_list[j]))
    /\ [](seen_comment_hashes = KeysOf(all_items_list))
    /\ [][\A k \in (Len(all_items_list) + 1)..Len(all_items_list') :
             unique_key(pg_platform, all_items_list'[k]) \notin seen_comment_hashes]_vars

\* every item of a full second batch had a key seen before
CrossBatchDeduplicationWitness ==
    /\ batch_num = 2
    /\ duplicates_in_batch = MaxBatchItems
    /\ all_items_list # <<>>

\* ---- the pauses between job submissions ----

\* C37: a job submitted after another one is preceded by a sleep: the batch
\* pause (30 s, 45 s on Instagram) before a next batch, attempt x 30 s before
\* the first job of a next attempt, a value between pause_min and pause_max
\* before the first job of a URL that follows an extracted one, and nothing
\* before the first job of the run; the iteration of the last URL of the list
\* ends without the pause between URLs
PausesBetweenJobs ==
    /\ [][(jobs' = jobs + 1) =>
            IF pg_pc = "loop" /\ batch_num > 0
            THEN last_event
                   = Slept("batch", IF pg_platform = "Instagram" THEN 45 ELSE 30)
            ELSE IF attempt > 0
            THEN last_event = Slept("retry", attempt * 30)
            ELSE IF extraction_stats.total_attempts > 1
            THEN /\ last_event.ev = "url"
                 /\ pause_min <= last_event.secs
                 /\ last_event.secs <= pause_max
            ELSE last_event = NoEvent]_vars
    /\ [][(pc = "urls" /\ idx = Len(valid_urls) /\ idx' = idx + 1)
             => (last_event' = last_event)]_vars

\* the second URL of the list, in its second attempt, after the pause that
\* follows its second batch
PausesBetweenJobsWitness ==
    /\ idx = 2
    /\ attempt = 1
    /\ sleeps = <<30>>
    /\ pg_platform = "Instagram"
    /\ jobs = 2
    /\ last_event = Slept("batch", 45)

====
